---- MODULE Spec2Model ----
(***************************************************************************)
(* Camera property cycling of the Varjo examples' CameraManager            *)
(* (examples/Common/CameraManager.cpp), run against a model of the device  *)
(* session it calls.  Every CameraManager operation is one action; the     *)
(* device calls it issues, in order and with what each returned, are kept  *)
(* in the history variable calls.  The chroma-key configuration store of   *)
(* ChromaKeyManager (examples/Common/ChromaKeyManager.cpp) runs against    *)
(* the same session in a specification of its own, SpecChroma.             *)
(* SpecTwo runs two CameraManager clients one device call at a time, and   *)
(* SpecList the two list queries on their own.                             *)
(***************************************************************************)
EXTENDS Integers, Sequences, FiniteSets, TLC

\* ------------------------------------------------------------------ bounds
\* Manual values have payloads 100, 200, ..., 100 * MaxPayload.
MaxPayload == 2
\* A property's supported-value list holds at most MaxValues entries.
MaxValues == 2
\* The device offers at most MaxConfigs chroma-key config slots.
MaxConfigs == 2

\* ------------------------------------------------------------------- types
\* Two of the five varjo_CameraPropertyType values; the code treats all alike.
PropertyTypes == {"ExposureTime", "ISOValue"}

Modes == {"Off", "Auto", "Manual"}

DataTypes == {"Bool", "Int", "Double"}

Payloads == {100 * k : k \in 1..MaxPayload}

\* varjo_CameraPropertyValue: a type tag and the payload stored in the union.
PropertyValues == [type : DataTypes, payload : Payloads]

IntValues == {v \in PropertyValues : v.type = "Int"}

ConfigTypes == {"List", "Range"}

\* Sequences over S of length at most n without repeated elements.
DistinctSeqs(S, n) ==
    {s \in UNION {[1..k -> S] : k \in 0..n} :
        \A i, j \in DOMAIN s : i # j => s[i] # s[j]}

ModeLists == DistinctSeqs(Modes, Cardinality(Modes))

ValueLists == DistinctSeqs(IntValues, MaxValues)

\* The HSV target colors told apart (tolerance and falloff follow the color).
TargetColors == {"green", "blue"}

\* varjo_ChromaKeyConfig as the two factory functions build it; config{}
\* zero-initialises the parameters of a Disabled config.
createConfigHSV(targetColor) == [type |-> "HSV", targetColor |-> targetColor]

createConfigDisabled == [type |-> "Disabled", targetColor |-> "zero"]

ChromaKeyConfigs == {createConfigDisabled} \cup {createConfigHSV(c) : c \in TargetColors}

VARIABLES
    mode,          \* device: current mode of each property
    value,         \* device: current manual value of each property
    modeList,      \* device: supported modes of each property, in device order
    valueList,     \* device: supported manual values of each property
    configType,    \* device: config type of each property (List or Range)
    cameraLocked,  \* device: this session holds the Camera lock
    lastError,     \* session: an error is pending (kept until read)
    crashed,       \* the process died inside an operation
    calls,         \* history: the device calls of the latest operation
    op,            \* history: the latest operation and its property type
    origin,        \* cycle run: the property cycled and its first (mode, value)
    steps,         \* cycle run: the advance calls made since
    probe,         \* search run: an input of findPropertyValueIndex, its result
    m_configLocked,      \* ChromaKeyManager: shadow of the ChromaKey lock
    m_chromaKeyEnabled,  \* ChromaKeyManager: shadow of the enabled state
    m_count,             \* ChromaKeyManager: config count read at construction
    chromaKeyLocked,     \* device: this session holds the ChromaKey lock
    chromaKey,           \* device: chroma keying is enabled
    chromaKeyConfigs,    \* device: the chroma-key config of each slot
    request,       \* history: the arguments of the latest ChromaKeyManager call
    result,        \* history: what it returned (<<>> for void)
    lockTrail,     \* history: the latest ChromaKey lock or unlock call that succeeded
    client,        \* two-client run: each client's position in its operation
    owner          \* two-client run: the session the device gave the Camera lock

chromaVars == <<m_configLocked, m_chromaKeyEnabled, m_count, chromaKeyLocked,
                chromaKey, chromaKeyConfigs, request, result, lockTrail>>

clientVars == <<client, owner>>

vars == <<mode, value, modeList, valueList, configType, cameraLocked,
          lastError, crashed, calls, op, origin, steps, probe, chromaVars,
          clientVars>>

\* ------------------------------------------------------- the device session
\* The state an operation threads through its device calls.
World ==
    [mode |-> mode, value |-> value, locked |-> cameraLocked,
     lastError |-> lastError, crashed |-> FALSE, calls |-> <<>>]

\* One device call appended to the history: its name, the property type (or
\* lock type) it carries, its argument and what it returned.
Call(w, c, t, a, r) ==
    [w EXCEPT !.calls = Append(@, [call |-> c, type |-> t, arg |-> a, ret |-> r])]

\* The session's error status is persistent: it keeps the first error.
Raise(w) == [w EXCEPT !.lastError = TRUE]

\* varjo_GetError returns the pending error and resets the status.
varjo_GetError(w) ==
    [Call(w, "GetError", "-", "-", w.lastError) EXCEPT !.lastError = FALSE]

CHECK_VARJO_ERR(w) == IF w.crashed THEN w ELSE varjo_GetError(w)

\* Non-blocking try-acquire of the Camera lock.
varjo_Lock(w, granted) ==
    [Call(w, "Lock", "Camera", "-", granted) EXCEPT !.locked = granted]

varjo_Unlock(w) ==
    IF w.crashed THEN w
    ELSE IF w.locked
         THEN [Call(w, "Unlock", "Camera", "-", TRUE) EXCEPT !.locked = FALSE]
         ELSE Raise(Call(w, "Unlock", "Camera", "-", FALSE))

\* A set call is applied as a whole or rejected with an error; the device
\* rejects it when the session does not hold the lock.
varjo_MRSetCameraPropertyMode(w, t, m, fail) ==
    IF w.crashed THEN w
    ELSE IF fail \/ ~w.locked
         THEN Raise(Call(w, "SetMode", t, m, FALSE))
         ELSE [Call(w, "SetMode", t, m, TRUE) EXCEPT !.mode[t] = m]

varjo_MRSetCameraPropertyValue(w, t, v, fail) ==
    IF w.crashed THEN w
    ELSE IF fail \/ ~w.locked
         THEN Raise(Call(w, "SetValue", t, v, FALSE))
         ELSE [Call(w, "SetValue", t, v, TRUE) EXCEPT !.value[t] = v]

\* Reset of every property to the device's defaults dm, dv.
varjo_MRResetCameraProperties(w, dm, dv, fail) ==
    IF fail \/ ~w.locked
    THEN Raise(Call(w, "Reset", "-", "-", FALSE))
    ELSE [Call(w, "Reset", "-", "-", TRUE) EXCEPT !.mode = dm, !.value = dv]

\* ------------------------------------------------------------ CameraManager
getPropertyModeList(w, t) ==
    LET w1 == Call(w, "GetModeCount", t, "-", Len(modeList[t]))
        w2 == Call(w1, "GetModes", t, "-", modeList[t])
    IN  [w |-> CHECK_VARJO_ERR(w2), ret |-> modeList[t]]

\* Mutant: the config type is read and not looked at.
getPropertyValueList_AnyConfig(w, t) ==
    LET w1 == CHECK_VARJO_ERR(Call(w, "GetConfigType", t, "-", configType[t]))
        w2 == Call(w1, "GetValueCount", t, "-", Len(valueList[t]))
        w3 == Call(w2, "GetValues", t, "-", valueList[t])
    IN  [w |-> CHECK_VARJO_ERR(w3), ret |-> valueList[t]]

getPropertyValueList(w, t) ==
    LET w1 == CHECK_VARJO_ERR(Call(w, "GetConfigType", t, "-", configType[t]))
    IN  IF configType[t] # "List"
        THEN [w |-> w1, ret |-> <<>>]
        ELSE LET w2 == Call(w1, "GetValueCount", t, "-", Len(valueList[t]))
                 w3 == Call(w2, "GetValues", t, "-", valueList[t])
             IN  [w |-> CHECK_VARJO_ERR(w3), ret |-> valueList[t]]

\* std::find over the modes: the 0-based index of the first match, or -1.
findPropertyModeIndex(m, modes) ==
    IF \E i \in 1..Len(modes) : modes[i] = m
    THEN (CHOOSE i \in 1..Len(modes) :
              modes[i] = m /\ \A j \in 1..(i - 1) : modes[j] # m) - 1
    ELSE -1

\* What reading union member `member` of val can yield: the payload when that
\* member is the one stored, any bit pattern when another member was stored.
ReadMember(val, member) ==
    IF val.type = member THEN {val.payload} ELSE Payloads

\* The loop of findPropertyValueIndex from 1-based position i on: the set of
\* results it can return.  The switch is on propertyValue.type alone and
\* reads that member of every entry, whatever the entry's own tag.
RECURSIVE FindValueFrom(_, _, _)
FindValueFrom(propertyValue, values, i) ==
    IF i > Len(values) THEN {-1}
    ELSE LET reads == ReadMember(values[i], propertyValue.type)
         IN  (IF propertyValue.payload \in reads THEN {i - 1} ELSE {})
             \cup (IF reads \ {propertyValue.payload} # {}
                   THEN FindValueFrom(propertyValue, values, i + 1)
                   ELSE {})

findPropertyValueIndex(propertyValue, values) ==
    FindValueFrom(propertyValue, values, 1)

\* Mutant: the value is set on another property than the one named.
setPropertyValueToModuloIndex_OtherType(w, t, index, fail, ub) ==
    LET OtherType(x) == CHOOSE u \in PropertyTypes : u # x
        r == getPropertyValueList(w, t)
        supportedValues == r.ret
    IN  IF w.crashed THEN w
        ELSE IF Len(supportedValues) = 0
        THEN IF ub.crash
             THEN [r.w EXCEPT !.crashed = TRUE]
             ELSE CHECK_VARJO_ERR(
                      varjo_MRSetCameraPropertyValue(r.w, OtherType(t), ub.read, fail))
        ELSE LET nextPropertyValue ==
                     supportedValues[(index % Len(supportedValues)) + 1]
             IN  CHECK_VARJO_ERR(
                     varjo_MRSetCameraPropertyValue(
                         r.w, OtherType(t), nextPropertyValue, fail))

\* index % size and operator[] on an empty vector are undefined: the process
\* dies (ub.crash), or an arbitrary element ub.read is read and execution
\* goes on.
setPropertyValueToModuloIndex(w, t, index, fail, ub) ==
    LET r == getPropertyValueList(w, t)
        supportedValues == r.ret
    IN  IF w.crashed THEN w
        ELSE IF Len(supportedValues) = 0
        THEN IF ub.crash
             THEN [r.w EXCEPT !.crashed = TRUE]
             ELSE CHECK_VARJO_ERR(
                      varjo_MRSetCameraPropertyValue(r.w, t, ub.read, fail))
        ELSE LET nextPropertyValue ==
                     supportedValues[(index % Len(supportedValues)) + 1]
             IN  CHECK_VARJO_ERR(
                     varjo_MRSetCameraPropertyValue(r.w, t, nextPropertyValue, fail))

\* Mutant: the manual value is not preset before Manual is entered.
setPropertyModeToModuloIndex_NoPreset(w, t, index, failValue, failMode, ub, ubMode) ==
    LET r == getPropertyModeList(w, t)
        supportedModes == r.ret
        nextPropertyMode ==
            IF Len(supportedModes) = 0 THEN ubMode
            ELSE supportedModes[(index % Len(supportedModes)) + 1]
    IN  IF Len(supportedModes) = 0 /\ ubMode = "crash"
        THEN [r.w EXCEPT !.crashed = TRUE]
        ELSE CHECK_VARJO_ERR(
                 varjo_MRSetCameraPropertyMode(r.w, t, nextPropertyMode, failMode))

\* Mutant: the manual value is preset whatever the next mode is.
setPropertyModeToModuloIndex_AlwaysPreset(w, t, index, failValue, failMode, ub, ubMode) ==
    LET r == getPropertyModeList(w, t)
        supportedModes == r.ret
        nextPropertyMode ==
            IF Len(supportedModes) = 0 THEN ubMode
            ELSE supportedModes[(index % Len(supportedModes)) + 1]
        w1 == setPropertyValueToModuloIndex(r.w, t, 0, failValue, ub)
    IN  IF Len(supportedModes) = 0 /\ ubMode = "crash"
        THEN [r.w EXCEPT !.crashed = TRUE]
        ELSE CHECK_VARJO_ERR(
                 varjo_MRSetCameraPropertyMode(w1, t, nextPropertyMode, failMode))

setPropertyModeToModuloIndex(w, t, index, failValue, failMode, ub, ubMode) ==
    LET r == getPropertyModeList(w, t)
        supportedModes == r.ret
        nextPropertyMode ==
            IF Len(supportedModes) = 0 THEN ubMode
            ELSE supportedModes[(index % Len(supportedModes)) + 1]
        w1 == IF nextPropertyMode = "Manual"
              THEN setPropertyValueToModuloIndex(r.w, t, 0, failValue, ub)
              ELSE r.w
    IN  IF Len(supportedModes) = 0 /\ ubMode = "crash"
        THEN [r.w EXCEPT !.crashed = TRUE]
        ELSE CHECK_VARJO_ERR(
                 varjo_MRSetCameraPropertyMode(w1, t, nextPropertyMode, failMode))

\* Mutant: the early return forgets the unlock.
ValueNotFound_NoUnlock(w) == w

\* Lines 137-142: the current value is not in the list.
ValueNotFound(w) == CHECK_VARJO_ERR(varjo_Unlock(w))

\* Mutant: the lock is released before the value is set.
NextValue_UnlockFirst(w, t, currentValueIndex, failValue, ub) ==
    setPropertyValueToModuloIndex(
        CHECK_VARJO_ERR(varjo_Unlock(w)), t, currentValueIndex + 1, failValue, ub)

\* Mutant: the index is not advanced, the current value is set again.
NextValue_SameIndex(w, t, currentValueIndex, failValue, ub) ==
    CHECK_VARJO_ERR(varjo_Unlock(
        setPropertyValueToModuloIndex(w, t, currentValueIndex, failValue, ub)))

\* Lines 144-149: a later value is left, set it and return.
NextValue(w, t, currentValueIndex, failValue, ub) ==
    CHECK_VARJO_ERR(varjo_Unlock(
        setPropertyValueToModuloIndex(w, t, currentValueIndex + 1, failValue, ub)))

\* Mutant: the mode index is not advanced.
NextMode_SameIndex(w, t, currentMode, supportedModes, failValue, failMode, ub, ubMode) ==
    LET currentModeIndex == findPropertyModeIndex(currentMode, supportedModes)
        wn == IF currentModeIndex = -1 THEN w
              ELSE setPropertyModeToModuloIndex(
                       w, t, currentModeIndex, failValue, failMode, ub, ubMode)
    IN  CHECK_VARJO_ERR(varjo_Unlock(wn))

\* Mutant: a current mode that is not found counts as the one before the first.
NextMode_DefaultFirst(w, t, currentMode, supportedModes, failValue, failMode, ub, ubMode) ==
    LET currentModeIndex == findPropertyModeIndex(currentMode, supportedModes)
    IN  CHECK_VARJO_ERR(varjo_Unlock(
            setPropertyModeToModuloIndex(
                w, t, currentModeIndex + 1, failValue, failMode, ub, ubMode)))

\* Lines 152-161: otherwise set the next mode.
NextMode(w, t, currentMode, supportedModes, failValue, failMode, ub, ubMode) ==
    LET currentModeIndex == findPropertyModeIndex(currentMode, supportedModes)
        wn == IF currentModeIndex = -1 THEN w
              ELSE setPropertyModeToModuloIndex(
                       w, t, currentModeIndex + 1, failValue, failMode, ub, ubMode)
    IN  CHECK_VARJO_ERR(varjo_Unlock(wn))

\* Mutant: a denied lock is tried a second time.
AcquireCamera_Retry(w, granted) ==
    IF granted THEN CHECK_VARJO_ERR(varjo_Lock(w, granted))
    ELSE CHECK_VARJO_ERR(varjo_Lock(CHECK_VARJO_ERR(varjo_Lock(w, granted)), granted))

\* Lines 121-126: the lock, and the early return when it is denied.
AcquireCamera(w, granted) == CHECK_VARJO_ERR(varjo_Lock(w, granted))

\* The set of worlds applyNextModeOrValue can end in (one per result the
\* value search can return).
applyNextModeOrValue(w, t, granted, failValue, failMode, ub, ubMode) ==
    LET w1 == AcquireCamera(w, granted)
        currentMode == w1.mode[t]
        w2 == Call(w1, "GetMode", t, "-", currentMode)
        rm == getPropertyModeList(w2, t)
        supportedModes == rm.ret
        currentValue == rm.w.value[t]
        w3 == Call(rm.w, "GetValue", t, "-", currentValue)
        rv == getPropertyValueList(w3, t)
        supportedValues == rv.ret
    IN  IF ~granted THEN {w1}
        ELSE IF currentMode = "Manual"
        THEN {IF currentValueIndex = -1
              THEN ValueNotFound(rv.w)
              ELSE IF currentValueIndex + 1 < Len(supportedValues)
              THEN NextValue(rv.w, t, currentValueIndex, failValue, ub)
              ELSE NextMode(rv.w, t, currentMode, supportedModes,
                            failValue, failMode, ub, ubMode)
                : currentValueIndex \in findPropertyValueIndex(currentValue, supportedValues)}
        ELSE {NextMode(rm.w, t, currentMode, supportedModes,
                       failValue, failMode, ub, ubMode)}

\* Mutant: the supported-mode list is not looked at.
setAutoMode_NoSupportCheck(w, t, granted, failMode) ==
    LET rm == getPropertyModeList(w, t)
        w1 == CHECK_VARJO_ERR(varjo_Lock(rm.w, granted))
        w2 == CHECK_VARJO_ERR(varjo_MRSetCameraPropertyMode(w1, t, "Auto", failMode))
    IN  IF ~granted THEN w1
        ELSE CHECK_VARJO_ERR(varjo_Unlock(w2))

\* Mutant: the lock is released only when set-mode reported no error.
setAutoMode_UnlockOnSuccess(w, t, granted, failMode) ==
    LET rm == getPropertyModeList(w, t)
        modes == rm.ret
        w1 == CHECK_VARJO_ERR(varjo_Lock(rm.w, granted))
        w2 == CHECK_VARJO_ERR(varjo_MRSetCameraPropertyMode(w1, t, "Auto", failMode))
    IN  IF ~(\E i \in 1..Len(modes) : modes[i] = "Auto") THEN rm.w
        ELSE IF ~granted THEN w1
        ELSE IF failMode THEN w2
        ELSE CHECK_VARJO_ERR(varjo_Unlock(w2))

setAutoMode(w, t, granted, failMode) ==
    LET rm == getPropertyModeList(w, t)
        modes == rm.ret
        w1 == CHECK_VARJO_ERR(varjo_Lock(rm.w, granted))
        w2 == CHECK_VARJO_ERR(varjo_MRSetCameraPropertyMode(w1, t, "Auto", failMode))
    IN  IF ~(\E i \in 1..Len(modes) : modes[i] = "Auto") THEN rm.w
        ELSE IF ~granted THEN w1
        ELSE CHECK_VARJO_ERR(varjo_Unlock(w2))

\* Mutant: the result of varjo_Lock is not looked at.
resetPropertiesToDefaults_IgnoreDenied(w, granted, dm, dv, fail) ==
    CHECK_VARJO_ERR(varjo_Unlock(CHECK_VARJO_ERR(
        varjo_MRResetCameraProperties(
            CHECK_VARJO_ERR(varjo_Lock(w, granted)), dm, dv, fail))))

\* Mutant: the lock is released only when the reset reported no error.
resetPropertiesToDefaults_UnlockOnSuccess(w, granted, dm, dv, fail) ==
    LET w1 == CHECK_VARJO_ERR(varjo_Lock(w, granted))
        w2 == CHECK_VARJO_ERR(varjo_MRResetCameraProperties(w1, dm, dv, fail))
    IN  IF ~granted THEN w1
        ELSE IF fail THEN w2
        ELSE CHECK_VARJO_ERR(varjo_Unlock(w2))

resetPropertiesToDefaults(w, granted, dm, dv, fail) ==
    LET w1 == CHECK_VARJO_ERR(varjo_Lock(w, granted))
        w2 == CHECK_VARJO_ERR(varjo_MRResetCameraProperties(w1, dm, dv, fail))
    IN  IF ~granted THEN w1
        ELSE CHECK_VARJO_ERR(varjo_Unlock(w2))

\* ----------------------------------------------------------------- actions
\* The state an operation leaves behind.
Finish(w, name, t) ==
    /\ mode' = w.mode
    /\ value' = w.value
    /\ cameraLocked' = w.locked
    /\ lastError' = w.lastError
    /\ crashed' = w.crashed
    /\ calls' = w.calls
    /\ op' = [name |-> name, type |-> t]
    /\ UNCHANGED <<modeList, valueList, configType>>

\* The value list the component sees (empty unless the config type is List).
SeenValues(t) == IF configType[t] = "List" THEN valueList[t] ELSE <<>>

\* Outcomes of the undefined element access on an empty list.
UBValues(t) ==
    LET any == CHOOSE v \in IntValues : TRUE
    IN  IF Len(SeenValues(t)) = 0
        THEN {[crash |-> TRUE, read |-> any]}
             \cup {[crash |-> FALSE, read |-> v] : v \in IntValues}
        ELSE {[crash |-> FALSE, read |-> any]}

UBModes(t) == IF Len(modeList[t]) = 0 THEN {"crash"} \cup Modes ELSE {"none"}

\* What the device can answer during one operation: whether the lock is
\* granted and, if it is, which of the set calls it rejects.
LockOutcomes(n) ==
    {[granted |-> FALSE, fail |-> [i \in 1..n |-> FALSE]]}
    \cup {[granted |-> TRUE, fail |-> f] : f \in [1..n -> BOOLEAN]}

Camera(A) == A /\ UNCHANGED <<origin, steps, probe, chromaVars, clientVars>>

Advance(t) ==
    /\ ~crashed
    /\ \E o \in LockOutcomes(2) :
       \E ub \in UBValues(t), ubMode \in UBModes(t) :
       \E w \in applyNextModeOrValue(World, t, o.granted, o.fail[1], o.fail[2], ub, ubMode) :
           Camera(Finish(w, "advance", t))

SetAutoMode(t) ==
    /\ ~crashed
    /\ \E o \in LockOutcomes(1) :
           Camera(Finish(setAutoMode(World, t, o.granted, o.fail[1]), "setAutoMode", t))

\* The device's defaults are its own: any mode and value, the same for every
\* property of the bounded device.
ResetPropertiesToDefaults ==
    /\ ~crashed
    /\ \E o \in LockOutcomes(1) :
       \E m \in (IF o.granted /\ ~o.fail[1] THEN Modes ELSE {"Auto"}) :
       \E v \in (IF o.granted /\ ~o.fail[1] THEN IntValues
                 ELSE {CHOOSE x \in IntValues : TRUE}) :
           Camera(Finish(resetPropertiesToDefaults(
                      World, o.granted, [t \in PropertyTypes |-> m],
                      [t \in PropertyTypes |-> v], o.fail[1]), "reset", "-"))

\* The device's lists: every property of the bounded device offers the same
\* lists; a property whose config type is not List has no value list.
DeviceLists ==
    /\ \E ml \in ModeLists : modeList = [t \in PropertyTypes |-> ml]
    /\ \E ct \in ConfigTypes :
       \E vl \in (IF ct = "List" THEN ValueLists ELSE {<<>>}) :
          /\ configType = [t \in PropertyTypes |-> ct]
          /\ valueList = [t \in PropertyTypes |-> vl]

Idle ==
    /\ cameraLocked = FALSE
    /\ lastError = FALSE
    /\ crashed = FALSE
    /\ calls = <<>>
    /\ op = [name |-> "none", type |-> "-"]

NoOrigin == [type |-> "-", mode |-> "-", value |-> CHOOSE v \in IntValues : TRUE]

NoProbe == [v |-> CHOOSE v \in IntValues : TRUE, values |-> <<>>, done |-> FALSE, ret |-> -1]

\* The two CameraManager clients of the two-client run, each on a session of
\* its own.
Clients == {"c1", "c2"}

\* A client between two operations.
IdleClient ==
    [pc |-> "idle", name |-> "none", type |-> "-", denied |-> FALSE,
     currentMode |-> "-", index |-> 0, nextMode |-> "-", mutated |-> FALSE]

NoClients ==
    /\ client = [c \in Clients |-> IdleClient]
    /\ owner = "none"

NoRequest == [enabled |-> FALSE, index |-> 0, config |-> createConfigDisabled]

\* No ChromaKeyManager has been constructed.
NoChroma ==
    /\ m_configLocked = FALSE
    /\ m_chromaKeyEnabled = FALSE
    /\ m_count = 0
    /\ chromaKeyLocked = FALSE
    /\ chromaKey = FALSE
    /\ chromaKeyConfigs = <<>>
    /\ request = NoRequest
    /\ result = <<>>
    /\ lockTrail = "none"

Init ==
    /\ mode \in [PropertyTypes -> Modes]
    /\ value \in [PropertyTypes -> IntValues]
    /\ DeviceLists
    /\ Idle
    /\ origin = NoOrigin
    /\ steps = 0
    /\ probe = NoProbe
    /\ NoChroma
    /\ NoClients

Next ==
    \/ \E t \in PropertyTypes : Advance(t)
    \/ \E t \in PropertyTypes : SetAutoMode(t)
    \/ ResetPropertiesToDefaults

Spec == Init /\ [][Next]_vars

\* ---------------------------------------------------------- the cycle run
\* advance applied again and again to one property, the lock granted, no
\* device error, nothing else touching the device.
Max(a, b) == IF a >= b THEN a ELSE b

\* N = |modes| * max(|values|, 1).
FullCycle(t) == Len(modeList[t]) * Max(Len(SeenValues(t)), 1)

InitCycle ==
    /\ \E m \in Modes : mode = [t \in PropertyTypes |-> m]
    /\ \E v \in IntValues : value = [t \in PropertyTypes |-> v]
    /\ DeviceLists
    /\ Idle
    /\ \E t \in PropertyTypes :
           origin = [type |-> t, mode |-> mode[t], value |-> value[t]]
    /\ steps = 0
    /\ probe = NoProbe
    /\ NoChroma
    /\ NoClients

CycleAdvance ==
    /\ ~crashed
    /\ steps < FullCycle(origin.type)
    /\ \E ub \in UBValues(origin.type), ubMode \in UBModes(origin.type) :
       \E w \in applyNextModeOrValue(World, origin.type, TRUE, FALSE, FALSE, ub, ubMode) :
           Finish(w, "advance", origin.type)
    /\ steps' = steps + 1
    /\ UNCHANGED <<origin, probe, chromaVars, clientVars>>

NextCycle == CycleAdvance

SpecCycle == InitCycle /\ [][NextCycle]_vars

\* --------------------------------------------------------- the search run
\* findPropertyValueIndex applied to any value and any list of values.
ProbeLists == UNION {[1..k -> PropertyValues] : k \in 0..MaxValues}

InitFind ==
    /\ mode = [t \in PropertyTypes |-> "Auto"]
    /\ value = [t \in PropertyTypes |-> CHOOSE v \in IntValues : TRUE]
    /\ modeList = [t \in PropertyTypes |-> <<>>]
    /\ valueList = [t \in PropertyTypes |-> <<>>]
    /\ configType = [t \in PropertyTypes |-> "List"]
    /\ Idle
    /\ origin = NoOrigin
    /\ steps = 0
    /\ \E v \in PropertyValues, l \in ProbeLists :
           probe = [v |-> v, values |-> l, done |-> FALSE, ret |-> -1]
    /\ NoChroma
    /\ NoClients

FindPropertyValueIndex ==
    /\ ~probe.done
    /\ \E r \in findPropertyValueIndex(probe.v, probe.values) :
           probe' = [probe EXCEPT !.done = TRUE, !.ret = r]
    /\ UNCHANGED <<mode, value, modeList, valueList, configType, cameraLocked,
                   lastError, crashed, calls, op, origin, steps, chromaVars,
                   clientVars>>

NextFind == FindPropertyValueIndex

SpecFind == InitFind /\ [][NextFind]_vars

\* -------------------------------------------------------- ChromaKeyManager
\* The state a ChromaKeyManager operation threads through its device calls.
ChromaWorld ==
    [m_configLocked |-> m_configLocked, m_chromaKeyEnabled |-> m_chromaKeyEnabled,
     held |-> chromaKeyLocked, on |-> chromaKey, configs |-> chromaKeyConfigs,
     lastError |-> lastError, crashed |-> FALSE, calls |-> <<>>, ret |-> <<>>]

\* CHECK_VARJO_ERR(m_session) == varjo_NoError, for the error query just made.
NoError(w) == ~w.calls[Len(w.calls)].ret

\* Non-blocking try-acquire of the ChromaKey lock; a session that holds the
\* lock already gets varjo_Error_ChromaKeyAlreadyLocked.
varjo_LockChromaKey(w, granted) ==
    IF w.held
    THEN Raise(Call(w, "Lock", "ChromaKey", "-", FALSE))
    ELSE [Call(w, "Lock", "ChromaKey", "-", granted) EXCEPT !.held = granted]

\* Release of the ChromaKey lock; varjo_Error_ChromaKeyNotLocked when the
\* session does not hold it, and the lock is kept when the call fails.
varjo_UnlockChromaKey(w, fail) ==
    IF w.held /\ ~fail
    THEN [Call(w, "Unlock", "ChromaKey", "-", TRUE) EXCEPT !.held = FALSE]
    ELSE Raise(Call(w, "Unlock", "ChromaKey", "-", FALSE))

varjo_MRSetChromaKey(w, enabled, fail) ==
    IF fail
    THEN Raise(Call(w, "SetChromaKey", "-", enabled, FALSE))
    ELSE [Call(w, "SetChromaKey", "-", enabled, TRUE) EXCEPT !.on = enabled]

\* Slots are numbered from 0; junk is what a failed read hands back.
varjo_MRGetChromaKeyConfig(w, index, junk) ==
    IF index + 1 \in DOMAIN w.configs
    THEN Call(w, "GetChromaKeyConfig", "-", index, w.configs[index + 1])
    ELSE Raise(Call(w, "GetChromaKeyConfig", "-", index, junk))

\* The device applies a config only to an existing slot and only under the
\* lock (varjo_Error_ChromaKeyNotLocked otherwise).
varjo_MRSetChromaKeyConfig(w, index, config, fail) ==
    LET a == [index |-> index, config |-> config]
    IN  IF fail \/ ~w.held \/ index + 1 \notin DOMAIN w.configs
        THEN Raise(Call(w, "SetChromaKeyConfig", "-", a, FALSE))
        ELSE [Call(w, "SetChromaKeyConfig", "-", a, TRUE)
                  EXCEPT !.configs[index + 1] = config]

\* The macro logs and nothing else.
CHECK_CONFIG_LOCK(w) ==
    IF ~w.m_configLocked
    THEN Call(w, "LOGE", "-", "Config lock required for this action.", "-")
    ELSE w

\* The constructor: the count is read and no error query follows.
ChromaKeyManager(w, count, fail) ==
    IF fail
    THEN Raise(Call(w, "GetChromaKeyConfigCount", "-", "-", count))
    ELSE Call(w, "GetChromaKeyConfigCount", "-", "-", count)

\* Mutant: the shadow flag is not looked at before locking.
lockConfig_Relock(w, granted) ==
    LET w1 == CHECK_VARJO_ERR(varjo_LockChromaKey(w, granted))
        locked == w1.calls[Len(w1.calls) - 1].ret
    IN  [w1 EXCEPT !.m_configLocked = locked, !.ret = <<locked>>]

\* Mutant: lockConfig on a locked store releases the lock.
lockConfig_Toggle(w, granted) ==
    IF w.m_configLocked
    THEN [CHECK_VARJO_ERR(varjo_UnlockChromaKey(w, FALSE))
              EXCEPT !.m_configLocked = FALSE, !.ret = <<FALSE>>]
    ELSE LET w1 == CHECK_VARJO_ERR(varjo_LockChromaKey(w, granted))
             locked == w1.calls[Len(w1.calls) - 1].ret
         IN  [w1 EXCEPT !.m_configLocked = locked, !.ret = <<locked>>]

lockConfig(w, granted) ==
    IF w.m_configLocked
    THEN [w EXCEPT !.ret = <<w.m_configLocked>>]
    ELSE LET w1 == CHECK_VARJO_ERR(varjo_LockChromaKey(w, granted))
             locked == w1.calls[Len(w1.calls) - 1].ret
         IN  [w1 EXCEPT !.m_configLocked = locked, !.ret = <<locked>>]

unlockConfig(w, fail) ==
    IF ~w.m_configLocked
    THEN w
    ELSE LET w1 == CHECK_VARJO_ERR(
                       varjo_UnlockChromaKey(CHECK_CONFIG_LOCK(w), fail))
         IN  [w1 EXCEPT !.m_configLocked = FALSE]

\* Mutant: a toggle to the current state is sent to the device all the same.
toggleChromaKeying_NoRedundancyCheck(w, enabled, fail) ==
    LET w1 == CHECK_VARJO_ERR(varjo_MRSetChromaKey(w, enabled, fail))
    IN  IF NoError(w1)
        THEN [w1 EXCEPT !.m_chromaKeyEnabled = enabled, !.ret = <<TRUE>>]
        ELSE [w1 EXCEPT !.ret = <<FALSE>>]

\* Mutant: the shadow flag is updated whatever the error query returned.
toggleChromaKeying_AlwaysUpdate(w, enabled, fail) ==
    LET w1 == CHECK_VARJO_ERR(varjo_MRSetChromaKey(w, enabled, fail))
    IN  IF enabled = w.m_chromaKeyEnabled
        THEN [w EXCEPT !.ret = <<FALSE>>]
        ELSE [w1 EXCEPT !.m_chromaKeyEnabled = enabled, !.ret = <<NoError(w1)>>]

\* Mutant: without the lock a toggle is refused before it reaches the device.
toggleChromaKeying_NeedsLock(w, enabled, fail) ==
    LET w1 == CHECK_VARJO_ERR(varjo_MRSetChromaKey(w, enabled, fail))
    IN  IF enabled = w.m_chromaKeyEnabled \/ ~w.m_configLocked
        THEN [w EXCEPT !.ret = <<FALSE>>]
        ELSE IF NoError(w1)
        THEN [w1 EXCEPT !.m_chromaKeyEnabled = enabled, !.ret = <<TRUE>>]
        ELSE [w1 EXCEPT !.ret = <<FALSE>>]

toggleChromaKeying(w, enabled, fail) ==
    LET w1 == CHECK_VARJO_ERR(varjo_MRSetChromaKey(w, enabled, fail))
    IN  IF enabled = w.m_chromaKeyEnabled
        THEN [w EXCEPT !.ret = <<FALSE>>]
        ELSE IF NoError(w1)
        THEN [w1 EXCEPT !.m_chromaKeyEnabled = enabled, !.ret = <<TRUE>>]
        ELSE [w1 EXCEPT !.ret = <<FALSE>>]

\* Mutant: the read takes the lock and gives it back.
getConfig_Locking(w, index, junk) ==
    LET w0 == CHECK_VARJO_ERR(varjo_LockChromaKey(w, TRUE))
        w1 == varjo_MRGetChromaKeyConfig(w0, index, junk)
        config == w1.calls[Len(w1.calls)].ret
    IN  [CHECK_VARJO_ERR(varjo_UnlockChromaKey(CHECK_VARJO_ERR(w1), FALSE))
             EXCEPT !.ret = <<config>>]

getConfig(w, index, junk) ==
    LET w1 == varjo_MRGetChromaKeyConfig(w, index, junk)
        config == w1.calls[Len(w1.calls)].ret
    IN  [CHECK_VARJO_ERR(w1) EXCEPT !.ret = <<config>>]

\* Mutant: without the lock the call is refused before it reaches the device.
setConfig_Blocked(w, index, config, fail) ==
    LET w1 == CHECK_VARJO_ERR(
                  varjo_MRSetChromaKeyConfig(CHECK_CONFIG_LOCK(w), index, config, fail))
    IN  IF ~w.m_configLocked
        THEN [CHECK_CONFIG_LOCK(w) EXCEPT !.ret = <<FALSE>>]
        ELSE [w1 EXCEPT !.ret = <<NoError(w1)>>]

\* Mutant: the config count is read again before the config is set.
setConfig_Recount(w, index, config, fail) ==
    LET w0 == Call(w, "GetChromaKeyConfigCount", "-", "-", Len(w.configs))
        w1 == CHECK_VARJO_ERR(
                  varjo_MRSetChromaKeyConfig(CHECK_CONFIG_LOCK(w0), index, config, fail))
    IN  [w1 EXCEPT !.ret = <<NoError(w1)>>]

setConfig(w, index, config, fail) ==
    LET w1 == CHECK_VARJO_ERR(
                  varjo_MRSetChromaKeyConfig(CHECK_CONFIG_LOCK(w), index, config, fail))
    IN  [w1 EXCEPT !.ret = <<NoError(w1)>>]

\* ------------------------------------------------------- the chroma-key run
\* The latest ChromaKey lock or unlock call of cs that succeeded, or trail.
LatestLockCall(cs, trail) ==
    LET done == {i \in DOMAIN cs : cs[i].call \in {"Lock", "Unlock"} /\ cs[i].ret}
    IN  IF done = {} THEN trail
        ELSE cs[CHOOSE i \in done : \A j \in done : j <= i].call

\* The ChromaKeyManager object exists.
Alive == op.name # "~ChromaKeyManager"

\* The state a ChromaKeyManager operation leaves behind.
FinishChroma(w, name, req) ==
    /\ Alive
    /\ m_configLocked' = w.m_configLocked
    /\ m_chromaKeyEnabled' = w.m_chromaKeyEnabled
    /\ chromaKeyLocked' = w.held
    /\ chromaKey' = w.on
    /\ chromaKeyConfigs' = w.configs
    /\ lastError' = w.lastError
    /\ calls' = w.calls
    /\ op' = [name |-> name, type |-> "-"]
    /\ request' = req
    /\ result' = w.ret
    /\ lockTrail' = LatestLockCall(w.calls, lockTrail)
    /\ UNCHANGED <<m_count, mode, value, modeList, valueList, configType,
                   cameraLocked, crashed, origin, steps, probe, clientVars>>

LockConfig ==
    \E granted \in BOOLEAN :
        FinishChroma(lockConfig(ChromaWorld, granted), "lockConfig", NoRequest)

UnlockConfig ==
    \E fail \in BOOLEAN :
        FinishChroma(unlockConfig(ChromaWorld, fail), "unlockConfig", NoRequest)

ToggleChromaKeying ==
    \E enabled \in BOOLEAN, fail \in BOOLEAN :
        FinishChroma(toggleChromaKeying(ChromaWorld, enabled, fail),
                     "toggleChromaKeying", [NoRequest EXCEPT !.enabled = enabled])

\* The caller may pass any index, also one past the last slot.
GetConfig ==
    \E index \in 0..MaxConfigs, junk \in ChromaKeyConfigs :
        FinishChroma(getConfig(ChromaWorld, index, junk),
                     "getConfig", [NoRequest EXCEPT !.index = index])

SetConfig ==
    \E index \in 0..MaxConfigs, config \in ChromaKeyConfigs, fail \in BOOLEAN :
        FinishChroma(setConfig(ChromaWorld, index, config, fail), "setConfig",
                     [NoRequest EXCEPT !.index = index, !.config = config])

\* The implicit destructor: the members go, nothing is called on the session.
Destroy ==
    FinishChroma(ChromaWorld, "~ChromaKeyManager", NoRequest)

\* The state after construction: a device with any slots and any enabled
\* state, the count read (or its read failed, the error left pending), both
\* shadow flags false.
InitChroma ==
    /\ mode = [t \in PropertyTypes |-> "Auto"]
    /\ value = [t \in PropertyTypes |-> CHOOSE v \in IntValues : TRUE]
    /\ modeList = [t \in PropertyTypes |-> <<>>]
    /\ valueList = [t \in PropertyTypes |-> <<>>]
    /\ configType = [t \in PropertyTypes |-> "List"]
    /\ cameraLocked = FALSE
    /\ crashed = FALSE
    /\ origin = NoOrigin
    /\ steps = 0
    /\ probe = NoProbe
    /\ \E n \in 0..MaxConfigs : chromaKeyConfigs \in [1..n -> ChromaKeyConfigs]
    /\ chromaKey \in BOOLEAN
    /\ chromaKeyLocked = FALSE
    /\ \E fail \in BOOLEAN :
       \E count \in (IF fail THEN 0..MaxConfigs ELSE {Len(chromaKeyConfigs)}) :
           LET w == ChromaKeyManager([lastError |-> FALSE, calls |-> <<>>], count, fail)
           IN  /\ m_count = count
               /\ lastError = w.lastError
               /\ calls = w.calls
    /\ m_configLocked = FALSE
    /\ m_chromaKeyEnabled = FALSE
    /\ op = [name |-> "ChromaKeyManager", type |-> "-"]
    /\ request = NoRequest
    /\ result = <<>>
    /\ lockTrail = "none"
    /\ NoClients

NextChroma ==
    \/ LockConfig
    \/ UnlockConfig
    \/ ToggleChromaKeying
    \/ GetConfig
    \/ SetConfig
    \/ Destroy

SpecChroma == InitChroma /\ [][NextChroma]_vars

\* ------------------------------------------------- reading the call history
Positions(c) == {i \in DOMAIN calls : calls[i].call = c}

GrantedLocks == {i \in Positions("Lock") : calls[i].ret}

DeniedLocks == {i \in Positions("Lock") : ~calls[i].ret}

Unlocks == Positions("Unlock")

MutatingCalls == {"SetMode", "SetValue", "Reset"}

Mutations == {i \in DOMAIN calls : calls[i].call \in MutatingCalls}

\* The device calls rejected with an error.
Rejected == {i \in Mutations : ~calls[i].ret}

LockingOps == {"advance", "setAutoMode", "reset"}

\* What the first call named c of the latest operation returned.
FirstRet(c) == calls[CHOOSE i \in Positions(c) : \A j \in Positions(c) : i <= j].ret

\* The latest operation was advance(t) with the lock granted and it read
\* current mode m.
AdvancedFrom(t, m) ==
    /\ op = [name |-> "advance", type |-> t]
    /\ GrantedLocks # {}
    /\ FirstRet("GetMode") = m

\* ... and it read m = Manual and the current value v.
AdvancedFromManual(t, v) ==
    /\ AdvancedFrom(t, "Manual")
    /\ FirstRet("GetValue") = v

Elems(s) == {s[i] : i \in DOMAIN s}

\* ------------------------------------------------------------ the list run
\* getPropertyModeList and getPropertyValueList called on their own (as
\* printSupportedPropertyModesAndValues does), on a device whose properties
\* may be of a config type other than List and still report values.
ListCall(r, name, t) ==
    /\ calls' = r.w.calls
    /\ lastError' = r.w.lastError
    /\ result' = <<r.ret>>
    /\ op' = [name |-> name, type |-> t]
    /\ UNCHANGED <<mode, value, modeList, valueList, configType, cameraLocked,
                   crashed, origin, steps, probe, m_configLocked,
                   m_chromaKeyEnabled, m_count, chromaKeyLocked, chromaKey,
                   chromaKeyConfigs, request, lockTrail, clientVars>>

GetPropertyModeList(t) == ListCall(getPropertyModeList(World, t), "getPropertyModeList", t)

GetPropertyValueList(t) == ListCall(getPropertyValueList(World, t), "getPropertyValueList", t)

InitList ==
    /\ \E m \in Modes : mode = [t \in PropertyTypes |-> m]
    /\ \E v \in IntValues : value = [t \in PropertyTypes |-> v]
    /\ \E ml \in ModeLists : modeList = [t \in PropertyTypes |-> ml]
    /\ \E vl \in ValueLists : valueList = [t \in PropertyTypes |-> vl]
    /\ \E ct \in ConfigTypes : configType = [t \in PropertyTypes |-> ct]
    /\ Idle
    /\ origin = NoOrigin
    /\ steps = 0
    /\ probe = NoProbe
    /\ NoChroma
    /\ NoClients

NextList ==
    \/ \E t \in PropertyTypes : GetPropertyModeList(t)
    \/ \E t \in PropertyTypes : GetPropertyValueList(t)

SpecList == InitList /\ [][NextList]_vars

\* ------------------------------------------------------ the two-client run
\* Two CameraManager clients, each on a session of its own, against one
\* device; every step is one device call of one client (with the session's
\* own error query and the reads of the device's fixed lists), and the steps
\* of the two interleave freely.  The device gives the Camera lock to one
\* session at a time and answers false to the other at once.
Me(c) == client[c]

Step(c, next) == client' = [client EXCEPT ![c] = next]

\* Mutant: the result of varjo_Lock is not looked at.
AfterLock_IgnoreDenied(me, granted) ==
    [me EXCEPT !.denied = ~granted,
               !.pc = CASE me.name = "advance" -> "GetMode"
                        [] me.name = "setAutoMode" -> "SetMode"
                        [] OTHER -> "Reset",
               !.nextMode = IF me.name = "setAutoMode" THEN "Auto" ELSE "-"]

\* Where an operation goes on after its varjo_Lock call: it returns when the
\* lock was denied.
AfterLock(me, granted) ==
    IF ~granted
    THEN [IdleClient EXCEPT !.denied = TRUE]
    ELSE [me EXCEPT !.pc = CASE me.name = "advance" -> "GetMode"
                            [] me.name = "setAutoMode" -> "SetMode"
                            [] OTHER -> "Reset",
                    !.nextMode = IF me.name = "setAutoMode" THEN "Auto" ELSE "-"]

\* A client calls advance(t), setAutoMode(t) or resetPropertiesToDefaults;
\* setAutoMode returns at once when Auto is not supported.
Start(c) ==
    /\ Me(c).pc = "idle"
    /\ \E name \in LockingOps :
       \E t \in (IF name = "reset" THEN {"-"} ELSE PropertyTypes) :
           Step(c, [IdleClient EXCEPT
                        !.name = name, !.type = t,
                        !.pc = IF name = "setAutoMode" /\ "Auto" \notin Elems(modeList[t])
                               THEN "idle" ELSE "Lock"])
    /\ UNCHANGED <<mode, value, owner>>

TryLock(c) ==
    /\ Me(c).pc = "Lock"
    /\ \E granted \in (IF owner = "none" THEN BOOLEAN ELSE {FALSE}) :
           /\ Step(c, AfterLock(Me(c), granted))
           /\ owner' = IF granted THEN c ELSE owner
    /\ UNCHANGED <<mode, value>>

\* Lines 128-132: the current mode is read.
GetMode(c) ==
    /\ Me(c).pc = "GetMode"
    /\ LET currentMode == mode[Me(c).type]
       IN  Step(c, [Me(c) EXCEPT !.currentMode = currentMode,
                                 !.pc = IF currentMode = "Manual"
                                        THEN "GetValue" ELSE "NextMode"])
    /\ UNCHANGED <<mode, value, owner>>

\* Lines 133-150: the current value is read and looked up.
GetValue(c) ==
    /\ Me(c).pc = "GetValue"
    /\ LET supportedValues == SeenValues(Me(c).type)
       IN  \E currentValueIndex \in
                  findPropertyValueIndex(value[Me(c).type], supportedValues) :
               Step(c, IF currentValueIndex = -1
                       THEN [Me(c) EXCEPT !.pc = "Unlock"]
                       ELSE IF currentValueIndex + 1 < Len(supportedValues)
                       THEN [Me(c) EXCEPT !.pc = "SetValue",
                                          !.index = currentValueIndex + 1]
                       ELSE [Me(c) EXCEPT !.pc = "NextMode"])
    /\ UNCHANGED <<mode, value, owner>>

\* Lines 153-158 and 285-290: the next mode is chosen; Manual is entered
\* through a preset of the value at index 0.
NextModeChoice(c) ==
    /\ Me(c).pc = "NextMode"
    /\ LET supportedModes == modeList[Me(c).type]
           currentModeIndex == findPropertyModeIndex(Me(c).currentMode, supportedModes)
           nextPropertyMode ==
               supportedModes[((currentModeIndex + 1) % Len(supportedModes)) + 1]
       IN  Step(c, IF currentModeIndex = -1
                   THEN [Me(c) EXCEPT !.pc = "Unlock"]
                   ELSE IF nextPropertyMode = "Manual"
                   THEN [Me(c) EXCEPT !.pc = "SetValue", !.index = 0,
                                      !.nextMode = nextPropertyMode]
                   ELSE [Me(c) EXCEPT !.pc = "SetMode",
                                      !.nextMode = nextPropertyMode])
    /\ UNCHANGED <<mode, value, owner>>

\* Lines 274-281; the device applies a set call only for the lock's owner.
SetValue(c) ==
    /\ Me(c).pc = "SetValue"
    /\ LET t == Me(c).type
           supportedValues == SeenValues(t)
           after == IF Me(c).nextMode = "-" THEN "Unlock" ELSE "SetMode"
       IN  \E ub \in UBValues(t) :
               IF ub.crash
               THEN /\ Step(c, [Me(c) EXCEPT !.pc = "crashed"])
                    /\ UNCHANGED value
               ELSE LET nextPropertyValue ==
                            IF Len(supportedValues) = 0 THEN ub.read
                            ELSE supportedValues[(Me(c).index % Len(supportedValues)) + 1]
                    IN  /\ value' = IF owner = c
                                    THEN [value EXCEPT ![t] = nextPropertyValue]
                                    ELSE value
                        /\ Step(c, [Me(c) EXCEPT !.pc = after, !.mutated = (owner = c)])
    /\ UNCHANGED <<mode, owner>>

\* Lines 110 and 291.
SetMode(c) ==
    /\ Me(c).pc = "SetMode"
    /\ mode' = IF owner = c THEN [mode EXCEPT ![Me(c).type] = Me(c).nextMode] ELSE mode
    /\ Step(c, [Me(c) EXCEPT !.pc = "Unlock", !.mutated = (owner = c)])
    /\ UNCHANGED <<value, owner>>

\* Line 173.
Reset(c) ==
    /\ Me(c).pc = "Reset"
    /\ \E m \in Modes, v \in IntValues :
           /\ mode' = IF owner = c THEN [t \in PropertyTypes |-> m] ELSE mode
           /\ value' = IF owner = c THEN [t \in PropertyTypes |-> v] ELSE value
    /\ Step(c, [Me(c) EXCEPT !.pc = "Unlock", !.mutated = (owner = c)])
    /\ UNCHANGED owner

Unlock(c) ==
    /\ Me(c).pc = "Unlock"
    /\ owner' = IF owner = c THEN "none" ELSE owner
    /\ Step(c, IdleClient)
    /\ UNCHANGED <<mode, value>>

InitTwo ==
    /\ \E m \in Modes : mode = [t \in PropertyTypes |-> m]
    /\ \E v \in IntValues : value = [t \in PropertyTypes |-> v]
    /\ DeviceLists
    /\ Idle
    /\ origin = NoOrigin
    /\ steps = 0
    /\ probe = NoProbe
    /\ NoChroma
    /\ NoClients

NextTwo ==
    /\ \E c \in Clients :
          \/ Start(c)
          \/ TryLock(c)
          \/ GetMode(c)
          \/ GetValue(c)
          \/ NextModeChoice(c)
          \/ SetValue(c)
          \/ SetMode(c)
          \/ Reset(c)
          \/ Unlock(c)
    /\ UNCHANGED <<modeList, valueList, configType, cameraLocked, lastError,
                   crashed, calls, op, origin, steps, probe, chromaVars>>

SpecTwo == InitTwo /\ [][NextTwo]_vars

\* ------------------------------------------------------------------ claims
\* C1: in setAutoMode, advance and resetPropertiesToDefaults, whenever
\* varjo_Lock(Camera) succeeded, exactly one varjo_Unlock(Camera) has been
\* issued, after the lock, by the time the call returns, on every path; the
\* lock is not held afterwards.
C1_UnlockOncePerAcquire ==
    (op.name \in LockingOps /\ ~crashed) =>
        /\ Cardinality(Positions("Lock")) <= 1
        /\ GrantedLocks # {} =>
               /\ Cardinality(Unlocks) = 1
               /\ \A i \in GrantedLocks, j \in Unlocks : i < j /\ calls[j].ret
        /\ ~cameraLocked

\* C1 witness: an advance whose set call the device rejected, the lock granted
\* and released.
C1_Witness ==
    /\ op.name = "advance"
    /\ ~crashed
    /\ GrantedLocks # {}
    /\ Rejected # {}
    /\ Cardinality(Unlocks) = 1

\* C2: when varjo_Lock(Camera) returns false, the operation issues no
\* set-mode, set-value, reset or unlock call and the mode and value of every
\* property are what they were before the call.
C2_DeniedLockChangesNothing ==
    [][(\E i \in DOMAIN calls' : calls'[i].call = "Lock" /\ ~calls'[i].ret) =>
           /\ mode' = mode
           /\ value' = value
           /\ \A i \in DOMAIN calls' :
                  calls'[i].call \notin (MutatingCalls \cup {"Unlock"})]_vars

C2_Witness ==
    /\ op.name \in LockingOps
    /\ DeniedLocks # {}
    /\ Mutations = {}
    /\ Unlocks = {}

\* C3: every mutating device call (set mode, set value, reset) is issued
\* after a successful varjo_Lock(Camera) of the same operation and before its
\* varjo_Unlock(Camera).
C3_MutationsUnderLock ==
    \A i \in Mutations :
        \E j \in GrantedLocks :
            /\ j < i
            /\ \A k \in Unlocks : ~(j < k /\ k < i)

\* C3 witness: an advance into Manual, which sets a value and a mode.
C3_Witness ==
    /\ op.name = "advance"
    /\ Positions("SetValue") # {}
    /\ Positions("SetMode") # {}
    /\ Cardinality(Unlocks) = 1

\* C4: advance(t) with the lock granted, current mode Manual and the current
\* value found at index i with i + 1 < |supportedValues| issues exactly one
\* mutating call, set-value of supportedValues[i + 1], never set-mode, and
\* the mode stays Manual.
C4_ManualNextValueOnly ==
    \A t \in PropertyTypes : \A v \in PropertyValues :
    \A i \in 0..(Len(SeenValues(t)) - 2) :
        (AdvancedFromManual(t, v) /\ findPropertyValueIndex(v, SeenValues(t)) = {i}) =>
            /\ Cardinality(Mutations) = 1
            /\ \A k \in Mutations :
                   /\ calls[k].call = "SetValue"
                   /\ calls[k].type = t
                   /\ calls[k].arg = SeenValues(t)[i + 2]
            /\ Positions("SetMode") = {}
            /\ mode[t] = "Manual"

C4_Witness ==
    \E t \in PropertyTypes : \E v \in PropertyValues :
        /\ AdvancedFromManual(t, v)
        /\ findPropertyValueIndex(v, SeenValues(t)) = {0}
        /\ Len(SeenValues(t)) = 2
        /\ value[t] = SeenValues(t)[2]
        /\ Cardinality(Mutations) = 1

\* The value v is the last entry of t's value list, as advance finds it.
FoundLast(t, v) ==
    /\ Len(SeenValues(t)) >= 1
    /\ findPropertyValueIndex(v, SeenValues(t)) = {Len(SeenValues(t)) - 1}

\* The length of the cycle advance walks: every mode once and, inside
\* Manual, every value once.
CycleLength(t) ==
    IF "Manual" \in Elems(modeList[t])
    THEN Len(modeList[t]) + Len(SeenValues(t)) - 1
    ELSE Len(modeList[t])

\* The start pair lies on that cycle.
OnCycle ==
    /\ origin.type \in PropertyTypes
    /\ origin.mode \in Elems(modeList[origin.type])
    /\ "Manual" \in Elems(modeList[origin.type]) => Len(SeenValues(origin.type)) >= 1
    /\ origin.mode = "Manual" => origin.value \in Elems(SeenValues(origin.type))

\* C5 as stated (checked under SpecCycle), for the start pairs made of a
\* supported mode and a supported value: with the lock granted, no device
\* error and no other change of the device, N = |modes| * max(|values|, 1)
\* advance calls bring the device back to the (mode, value) pair it started
\* from.
C5_FullCycleClosure ==
    (/\ OnCycle
     /\ origin.value \in Elems(SeenValues(origin.type))
     /\ steps = FullCycle(origin.type)) =>
        /\ mode[origin.type] = origin.mode
        /\ value[origin.type] = origin.value

\* C5 amended (checked under SpecCycle): from a start mode of the
\* supported-mode list (and, in Manual, a start value of the value list; the
\* value list not empty when Manual is supported), |modes| + |values| - 1
\* advance calls when Manual is supported, |modes| otherwise, bring the
\* device back to the start mode, and to the start value when the start mode
\* is Manual or Manual is not supported.
C5_CycleClosure ==
    (OnCycle /\ steps = CycleLength(origin.type)) =>
        /\ ~crashed
        /\ mode[origin.type] = origin.mode
        /\ (origin.mode = "Manual" \/ "Manual" \notin Elems(modeList[origin.type]))
               => value[origin.type] = origin.value

\* C5 witness: a full walk through three modes and two values, back in
\* Manual, in fewer than N calls.
C5_Witness ==
    /\ OnCycle
    /\ steps = CycleLength(origin.type)
    /\ steps < FullCycle(origin.type)
    /\ Len(modeList[origin.type]) = 3
    /\ Len(SeenValues(origin.type)) = 2
    /\ origin.mode = "Manual"
    /\ mode[origin.type] = "Manual"

\* The mode advance takes over from current mode m (and current value v in
\* Manual): m is not Manual, or the current value is the last of the list.
ModeBranch(t, m) ==
    /\ AdvancedFrom(t, m)
    /\ m # "Manual" \/ FoundLast(t, FirstRet("GetValue"))

\* C6: advance(t) with the lock granted, the current mode not Manual or
\* Manual with the current value last in the list, and the current mode at
\* index i of the n supported modes: the set-mode call it issues carries
\* supportedModes[(i + 1) mod n], and a call that returns issues exactly one.
C6_NextModeModulo ==
    \A t \in PropertyTypes : \A m \in Elems(modeList[t]) :
        ModeBranch(t, m) =>
            LET i == findPropertyModeIndex(m, modeList[t])
                n == Len(modeList[t])
            IN  /\ \A k \in Positions("SetMode") :
                       /\ calls[k].type = t
                       /\ calls[k].arg = modeList[t][((i + 1) % n) + 1]
                /\ ~crashed => Cardinality(Positions("SetMode")) = 1

\* C6 witness: the wrap from the last of three modes, here Manual with its
\* last value, to the first.
C6_Witness ==
    \E t \in PropertyTypes :
        /\ ModeBranch(t, "Manual")
        /\ Len(modeList[t]) = 3
        /\ modeList[t][3] = "Manual"
        /\ Len(SeenValues(t)) = 2
        /\ Rejected = {}
        /\ mode[t] = modeList[t][1]

IntValue(n) == [type |-> "Int", payload |-> n]

\* The scenario of C7: modes [Off, Auto, Manual], values [int 100, int 200].
Scenario(t) ==
    /\ modeList[t] = <<"Off", "Auto", "Manual">>
    /\ SeenValues(t) = <<IntValue(100), IntValue(200)>>

\* C7 as stated: in the scenario, one advance from (Manual, 200) sets the
\* mode to Auto; an advance from Auto sets Manual with the value 100.
C7_ScenarioAsStated ==
    \A t \in PropertyTypes :
        (Scenario(t) /\ Rejected = {}) =>
            /\ AdvancedFromManual(t, IntValue(200)) => mode[t] = "Auto"
            /\ AdvancedFrom(t, "Auto") => (mode[t] = "Manual" /\ value[t] = IntValue(100))

\* C7 amended: in the scenario, one advance from (Manual, 200) sets the mode
\* to Off, the entry at index (2 + 1) mod 3 = 0; an advance from Auto sets
\* Manual with the value 100.
C7_Scenario ==
    \A t \in PropertyTypes :
        (Scenario(t) /\ Rejected = {}) =>
            /\ AdvancedFromManual(t, IntValue(200)) =>
                   (mode[t] = "Off" /\ value[t] = IntValue(200))
            /\ AdvancedFrom(t, "Auto") => (mode[t] = "Manual" /\ value[t] = IntValue(100))

\* C7 witnesses: both steps of the scenario.
C7_Witness ==
    \E t \in PropertyTypes :
        /\ Scenario(t)
        /\ Rejected = {}
        /\ AdvancedFromManual(t, IntValue(200))
        /\ mode[t] = "Off"

C7_WitnessFromAuto ==
    \E t \in PropertyTypes :
        /\ Scenario(t)
        /\ Rejected = {}
        /\ AdvancedFrom(t, "Auto")
        /\ Positions("SetValue") # {}
        /\ mode[t] = "Manual"

\* C8: whenever advance issues set-mode(Manual), it has issued before it, in
\* the same call and under the same lock, set-value with the value at index 0
\* of the value list.
C8_PresetBeforeManual ==
    \A t \in PropertyTypes :
        op = [name |-> "advance", type |-> t] =>
            \A i \in Positions("SetMode") :
                calls[i].arg = "Manual" =>
                    \E j \in Positions("SetValue") :
                        /\ j < i
                        /\ \A k \in Unlocks : ~(j < k /\ k < i)
                        /\ Len(SeenValues(t)) >= 1
                        /\ calls[j].arg = SeenValues(t)[1]

\* C9 as stated, for the mode lists that hold the current mode: for every
\* such mode list and every value list, advance from Manual with the last
\* value advances the mode and does not set the value back to index 0 in that
\* call.
C9_NoValueWrapAsStated ==
    \A t \in PropertyTypes :
        (/\ AdvancedFrom(t, "Manual")
         /\ FoundLast(t, FirstRet("GetValue"))
         /\ "Manual" \in Elems(modeList[t])) =>
            /\ Positions("SetMode") # {}
            /\ \A k \in Positions("SetValue") : calls[k].arg # SeenValues(t)[1]

\* C9 amended: for every mode list that holds Manual and another mode, and
\* every value list, advance from Manual with the last value issues one
\* set-mode call, with the next mode, and no set-value call; when Manual is
\* the only supported mode it sets the value at index 0 and then Manual again.
C9_NoValueWrap ==
    \A t \in PropertyTypes :
        (/\ AdvancedFrom(t, "Manual")
         /\ FoundLast(t, FirstRet("GetValue"))
         /\ "Manual" \in Elems(modeList[t])) =>
            /\ ~crashed
            /\ Cardinality(Positions("SetMode")) = 1
            /\ Len(modeList[t]) >= 2 =>
                   /\ \A k \in Positions("SetMode") : calls[k].arg # "Manual"
                   /\ Positions("SetValue") = {}
            /\ Len(modeList[t]) = 1 =>
                   /\ \A k \in Positions("SetMode") : calls[k].arg = "Manual"
                   /\ Cardinality(Positions("SetValue")) = 1
                   /\ \A k \in Positions("SetValue") : calls[k].arg = SeenValues(t)[1]

C9_Witness ==
    \E t \in PropertyTypes :
        /\ AdvancedFrom(t, "Manual")
        /\ FoundLast(t, FirstRet("GetValue"))
        /\ Len(SeenValues(t)) = 2
        /\ "Manual" \in Elems(modeList[t])
        /\ Len(modeList[t]) >= 2
        /\ Rejected = {}
        /\ mode[t] # "Manual"

\* C10 (checked under SpecFind): findPropertyValueIndex(v, values) returns an
\* index i only if values[i] has v's type tag and v's payload, and -1 when no
\* entry of values has v's type tag.
C10_TypedEquality ==
    probe.done =>
        /\ probe.ret >= 0 => probe.values[probe.ret + 1] = probe.v
        /\ (\A i \in DOMAIN probe.values : probe.values[i].type # probe.v.type)
               => probe.ret = -1

\* C11: advance(t) with the lock granted, the current mode Manual and the
\* current value not found in the supported-value list issues no set-value
\* and no set-mode call, releases the lock once, and leaves the mode and
\* value of every property as they were.
C11_ValueNotFoundChangesNothing ==
    [][\A t \in PropertyTypes :
           (/\ op' = [name |-> "advance", type |-> t]
            /\ \E i \in DOMAIN calls' : calls'[i].call = "Lock" /\ calls'[i].ret
            /\ mode[t] = "Manual"
            /\ findPropertyValueIndex(value[t], SeenValues(t)) = {-1}) =>
               /\ \A i \in DOMAIN calls' : calls'[i].call \notin MutatingCalls
               /\ Cardinality({i \in DOMAIN calls' : calls'[i].call = "Unlock"}) = 1
               /\ ~cameraLocked'
               /\ mode' = mode
               /\ value' = value]_vars

\* C11 witness: an advance that read Manual and a value outside a value list
\* that is not empty; the lock granted and released.
C11_Witness ==
    \E t \in PropertyTypes :
        /\ AdvancedFromManual(t, value[t])
        /\ Len(SeenValues(t)) >= 1
        /\ value[t] \notin Elems(SeenValues(t))
        /\ Mutations = {}
        /\ Cardinality(Unlocks) = 1

\* The lock, unlock and mutating calls of a call history, by name and in the
\* order issued (the queries and the error queries left out).
Issued(cs) ==
    LET kept == SelectSeq(cs, LAMBDA c : c.call \in (MutatingCalls \cup {"Lock", "Unlock"}))
    IN  [i \in DOMAIN kept |-> kept[i].call]

\* C16: setAutoMode(t) called when Auto is not in t's supported-mode list (an
\* empty list included) issues no lock, no set-mode and no unlock call, and
\* leaves the device state unchanged.
C16_AutoUnsupportedNoOp ==
    [][\A t \in PropertyTypes :
           (/\ op' = [name |-> "setAutoMode", type |-> t]
            /\ "Auto" \notin Elems(modeList[t])) =>
               /\ Issued(calls') = <<>>
               /\ mode' = mode
               /\ value' = value
               /\ cameraLocked' = cameraLocked]_vars

\* C16 witness: setAutoMode on a property that offers modes, but not Auto; it
\* fetched the mode list and did nothing else.
C16_Witness ==
    \E t \in PropertyTypes :
        /\ op = [name |-> "setAutoMode", type |-> t]
        /\ Len(modeList[t]) >= 1
        /\ "Auto" \notin Elems(modeList[t])
        /\ Positions("GetModes") # {}
        /\ Positions("Lock") = {}

\* C17: setAutoMode(t) called when Auto is supported and the lock is granted
\* issues lock, set-mode(t, Auto), unlock in this order and no set-value call,
\* the unlock whether or not set-mode reported an error; with no device error
\* t's mode is Auto afterwards and its manual value is what it was.
C17_AutoModeSequence ==
    [][\A t \in PropertyTypes :
           (/\ op' = [name |-> "setAutoMode", type |-> t]
            /\ "Auto" \in Elems(modeList[t])
            /\ \E i \in DOMAIN calls' : calls'[i].call = "Lock" /\ calls'[i].ret) =>
               /\ Issued(calls') = <<"Lock", "SetMode", "Unlock">>
               /\ \A i \in DOMAIN calls' :
                      calls'[i].call = "SetMode" =>
                          (calls'[i].type = t /\ calls'[i].arg = "Auto")
               /\ ~cameraLocked'
               /\ value' = value
               /\ (\A i \in DOMAIN calls' : calls'[i].call = "GetError" => ~calls'[i].ret)
                      => mode' = [mode EXCEPT ![t] = "Auto"]]_vars

\* C17 witness: a setAutoMode whose set-mode call the device rejected, the
\* lock released all the same.
C17_Witness ==
    \E t \in PropertyTypes :
        /\ op = [name |-> "setAutoMode", type |-> t]
        /\ GrantedLocks # {}
        /\ Rejected # {}
        /\ mode[t] # "Auto"
        /\ Cardinality(Unlocks) = 1

\* C18: resetPropertiesToDefaults with the lock granted issues lock,
\* reset-properties, unlock in this order, the unlock whether or not the
\* reset reported an error.
C18_ResetSequence ==
    (op.name = "reset" /\ GrantedLocks # {}) =>
        /\ Issued(calls) = <<"Lock", "Reset", "Unlock">>
        /\ ~cameraLocked

\* C18 witness: a reset the device rejected, the lock released all the same.
C18_Witness ==
    /\ op.name = "reset"
    /\ GrantedLocks # {}
    /\ Rejected # {}
    /\ Cardinality(Unlocks) = 1

\* C20: in a CameraManager operation, once a device call has reported an
\* error, no further mutating call (set-mode, set-value, reset) is issued in
\* the same call; in particular when advance enters Manual and the set-value
\* call reports an error, set-mode is not issued.  Stated for the calls that
\* work on a value list that is not empty.
C20_NoMutationAfterError ==
    (op.type \in PropertyTypes /\ Len(SeenValues(op.type)) >= 1) =>
        \A i \in Positions("GetError") :
            calls[i].ret =>
                \A j \in Mutations : j < i

\* C12 (checked under SpecChroma): toggleChromaKeying(e) called while the
\* shadow enabled flag equals e returns false, issues no device call (no
\* varjo_MRSetChromaKey, no error query) and leaves both shadow flags as they
\* were.
C12_RedundantToggleRejected ==
    [][(/\ op'.name = "toggleChromaKeying"
        /\ request'.enabled = m_chromaKeyEnabled) =>
           /\ result' = <<FALSE>>
           /\ calls' = <<>>
           /\ m_chromaKeyEnabled' = m_chromaKeyEnabled
           /\ m_configLocked' = m_configLocked
           /\ chromaKey' = chromaKey]_vars

\* C12 witness: toggle(true) rejected after an earlier toggle(true) was
\* applied.
C12_Witness ==
    /\ op.name = "toggleChromaKeying"
    /\ request.enabled
    /\ m_chromaKeyEnabled
    /\ chromaKey
    /\ calls = <<>>
    /\ result = <<FALSE>>

\* C13 (checked under SpecChroma): toggleChromaKeying(e) called while the
\* shadow enabled flag differs from e issues exactly one
\* varjo_MRSetChromaKey(e) call; if the error query after it returns no error
\* the shadow flag becomes e and the call returns true, if it returns an
\* error the shadow flag keeps its value and the call returns false.
C13_ToggleAppliedOnNoError ==
    [][(/\ op'.name = "toggleChromaKeying"
        /\ request'.enabled # m_chromaKeyEnabled) =>
           /\ Len(calls') = 2
           /\ calls'[1].call = "SetChromaKey"
           /\ calls'[1].arg = request'.enabled
           /\ calls'[2].call = "GetError"
           /\ ~calls'[2].ret =>
                  (m_chromaKeyEnabled' = request'.enabled /\ result' = <<TRUE>>)
           /\ calls'[2].ret =>
                  (m_chromaKeyEnabled' = m_chromaKeyEnabled /\ result' = <<FALSE>>)
           /\ m_configLocked' = m_configLocked]_vars

\* C13 witness: a toggle(true) the device rejected; the shadow flag is still
\* false and the call returned false.
C13_Witness ==
    /\ op.name = "toggleChromaKeying"
    /\ request.enabled
    /\ Len(calls) = 2
    /\ ~calls[1].ret
    /\ calls[2].ret
    /\ ~m_chromaKeyEnabled
    /\ result = <<FALSE>>

\* C14 (checked under SpecChroma): lockConfig called while the shadow lock
\* flag is true issues no varjo_Lock call, returns true and leaves the flag
\* true; unlockConfig called while the flag is false issues no varjo_Unlock
\* call and leaves it false; and the device lock and unlock calls that
\* succeed alternate, starting with a lock.
C14_LockShadowGuards ==
    [][/\ (op'.name = "lockConfig" /\ m_configLocked) =>
              /\ calls' = <<>>
              /\ result' = <<TRUE>>
              /\ m_configLocked'
       /\ (op'.name = "unlockConfig" /\ ~m_configLocked) =>
              /\ calls' = <<>>
              /\ ~m_configLocked'
       /\ \A i \in DOMAIN calls' :
              /\ (calls'[i].call = "Lock" /\ calls'[i].ret) => lockTrail # "Lock"
              /\ (calls'[i].call = "Unlock" /\ calls'[i].ret) => lockTrail = "Lock"]_vars

\* C14 witness: lockConfig on a store that holds the lock: no device call,
\* true returned.
C14_Witness ==
    /\ op.name = "lockConfig"
    /\ lockTrail = "Lock"
    /\ m_configLocked
    /\ chromaKeyLocked
    /\ calls = <<>>
    /\ result = <<TRUE>>

\* C15 (checked under SpecChroma): setConfig(index, config) called while the
\* shadow lock flag is false logs an error and still issues the
\* varjo_MRSetChromaKeyConfig call, and returns true exactly when the error
\* query after that call reports no error; the flag neither blocks nor
\* changes.
C15_SetConfigUnlockedProceeds ==
    [][(op'.name = "setConfig" /\ ~m_configLocked) =>
           /\ Len(calls') = 3
           /\ calls'[1].call = "LOGE"
           /\ calls'[2].call = "SetChromaKeyConfig"
           /\ calls'[2].arg = [index |-> request'.index, config |-> request'.config]
           /\ calls'[3].call = "GetError"
           /\ result' = <<~calls'[3].ret>>
           /\ ~m_configLocked']_vars

\* C15 witness: the shadow flag false while the session still holds the
\* device lock (an unlock had failed): the device takes the config and
\* setConfig returns true.
C15_Witness ==
    /\ op.name = "setConfig"
    /\ ~m_configLocked
    /\ Positions("LOGE") # {}
    /\ result = <<TRUE>>
    /\ chromaKeyConfigs[request.index + 1] = request.config

\* The calls made on the session, the error queries themselves and the log
\* lines left out.
SessionCalls == {i \in DOMAIN calls : calls[i].call \notin {"GetError", "LOGE"}}

\* C19: in every CameraManager and ChromaKeyManager operation every session
\* call is immediately followed by an error query (varjo_GetError), before
\* the next session call is issued.
C19_ErrorQueryAfterEveryCall ==
    \A i \in SessionCalls :
        /\ i + 1 \in DOMAIN calls
        /\ calls[i + 1].call = "GetError"

\* C21: an advance, setAutoMode or reset call that fails with a device call
\* reporting an error (the device rejecting that single call) leaves the mode
\* and value of every property exactly as they were before the call.  Stated
\* for the calls that work on a value list that is not empty.
C21_FailedCallChangesNothing ==
    [][(/\ op'.name \in LockingOps
        /\ op'.type \in PropertyTypes => Len(SeenValues(op'.type)) >= 1
        /\ \E i \in DOMAIN calls' : calls'[i].call = "GetError" /\ calls'[i].ret) =>
           /\ mode' = mode
           /\ value' = value]_vars

\* The client is between a lock the device granted it and its unlock.
InCritical(c) == client[c].pc \notin {"idle", "Lock"}

\* C22 (checked under SpecTwo): with two clients whose device calls
\* interleave, at most one client is between a successful lock and its
\* unlock, no set-mode, set-value or reset call of one client is issued while
\* the other holds the lock, and a client whose lock is denied returns at
\* once, having changed nothing.
C22_TwoClientsExclusion ==
    [][/\ Cardinality({c \in Clients : InCritical(c)'}) <= 1
       /\ \A c \in Clients : InCritical(c)' => owner' = c
       /\ \A c \in Clients :
              (client[c].pc \in {"SetValue", "SetMode", "Reset"} /\ client'[c] # client[c])
                  => owner = c
       /\ \A c \in Clients :
              (client[c].pc = "Lock" /\ client'[c] # client[c] /\ owner' # c) =>
                  /\ client'[c].pc = "idle"
                  /\ client'[c].denied
                  /\ mode' = mode
                  /\ value' = value
                  /\ owner' = owner]_vars

\* C22 witness: one client about to set a mode under the lock, having set
\* the value, the other back from a call whose lock was denied.
C22_Witness ==
    \E c, d \in Clients :
        /\ owner = c
        /\ client[c].pc = "SetMode"
        /\ client[c].mutated
        /\ client[d].pc = "idle"
        /\ client[d].denied

\* The longest call history of one operation: an advance from Manual with its
\* last value into a mode list where Manual follows Manual (lock, current
\* mode, mode list, current value, value list, mode list, value list,
\* set-value, set-mode, unlock, with their error queries).
MaxCallsPerOperation == 26

\* C23: every CameraManager and ChromaKeyManager operation tries the device
\* lock at most once per call and ends after a bounded number of device
\* calls also when the lock is denied: a denied lock is followed by its error
\* query and nothing else, never by a second attempt.
C23_SingleLockAttempt ==
    /\ Cardinality(Positions("Lock")) <= 1
    /\ Len(calls) <= MaxCallsPerOperation
    /\ \A i \in DeniedLocks :
           /\ Len(calls) = i + 1
           /\ calls[i + 1].call = "GetError"

\* C23 witness: an advance whose lock was denied: two device calls.
C23_Witness ==
    /\ op.name = "advance"
    /\ DeniedLocks # {}
    /\ Len(calls) = 2

\* The bound of C23 is reached.
C23_LongestCall == Len(calls) = MaxCallsPerOperation

\* C24 (checked under SpecChroma): the shadow lock flag is true in exactly
\* the reachable states in which the session holds the device's ChromaKey
\* lock.
C24_ShadowMatchesDevice == m_configLocked <=> chromaKeyLocked

\* C25 (checked under SpecList): getPropertyValueList(t) returns the empty
\* sequence and issues neither the value-count nor the values query when t's
\* config type is not List; when it is List it returns the device's values
\* in device order, as many as the count reported.
C25_ValueListByConfigType ==
    \A t \in PropertyTypes :
        op = [name |-> "getPropertyValueList", type |-> t] =>
            /\ Positions("GetConfigType") # {}
            /\ configType[t] # "List" =>
                   /\ result = << <<>> >>
                   /\ Positions("GetValueCount") = {}
                   /\ Positions("GetValues") = {}
            /\ configType[t] = "List" =>
                   /\ result = <<valueList[t]>>
                   /\ Cardinality(Positions("GetValueCount")) = 1
                   /\ Cardinality(Positions("GetValues")) = 1
                   /\ FirstRet("GetValueCount") = Len(result[1])
                   /\ FirstRet("GetValues") = result[1]

\* C25 witness: a property of config type Range whose device entry reports
\* two values: the call returned none.
C25_Witness ==
    \E t \in PropertyTypes :
        /\ op = [name |-> "getPropertyValueList", type |-> t]
        /\ configType[t] = "Range"
        /\ Len(valueList[t]) = 2
        /\ result = << <<>> >>

\* ... and a property of config type List: its two values, in device order.
C25_WitnessList ==
    \E t \in PropertyTypes :
        /\ op = [name |-> "getPropertyValueList", type |-> t]
        /\ configType[t] = "List"
        /\ Len(valueList[t]) = 2
        /\ result = <<valueList[t]>>

\* C26 (checked under SpecChroma): getConfig(index), with or without the
\* lock, issues the device read for that index (and its error query) and no
\* lock, unlock or set call, and leaves the shadow flags, the cached count
\* and the device's configs, enabled state and lock as they were.
C26_GetConfigReadOnly ==
    [][op'.name = "getConfig" =>
           /\ Len(calls') = 2
           /\ calls'[1].call = "GetChromaKeyConfig"
           /\ calls'[1].arg = request'.index
           /\ calls'[2].call = "GetError"
           /\ result' = <<calls'[1].ret>>
           /\ UNCHANGED <<m_configLocked, m_chromaKeyEnabled, m_count,
                          chromaKeyConfigs, chromaKey, chromaKeyLocked>>]_vars

\* C26 witness: slot 1 read under the lock, an HSV config returned.
C26_Witness ==
    /\ op.name = "getConfig"
    /\ m_configLocked
    /\ request.index = 1
    /\ Len(chromaKeyConfigs) = 2
    /\ result = <<chromaKeyConfigs[2]>>
    /\ chromaKeyConfigs[2].type = "HSV"

\* ... and the same read without the lock.
C26_WitnessUnlocked ==
    /\ op.name = "getConfig"
    /\ ~m_configLocked
    /\ ~chromaKeyLocked
    /\ request.index = 1
    /\ Len(chromaKeyConfigs) = 2
    /\ result = <<chromaKeyConfigs[2]>>

\* The count queries of the latest operation.
CountQueries == Positions("GetChromaKeyConfigCount")

\* C27 (checked under SpecChroma): the config count is queried once, at
\* construction; whatever calls follow, the cached count keeps the value
\* read then and no further count query is issued.
C27_CountReadOnce ==
    /\ (Cardinality(CountQueries) = 1 /\ m_count = FirstRet("GetChromaKeyConfigCount"))
    /\ [][m_count' = m_count
          /\ \A i \in DOMAIN calls' : calls'[i].call # "GetChromaKeyConfigCount"]_vars

\* C27 witness: a store of two slots, locked, its slot 1 set to a new config:
\* the count is the 2 read at construction.
C27_Witness ==
    /\ op.name = "setConfig"
    /\ result = <<TRUE>>
    /\ m_configLocked
    /\ m_count = 2
    /\ Len(chromaKeyConfigs) = 2
    /\ CountQueries = {}

\* C28 (checked under SpecChroma): the destruction of a ChromaKeyManager
\* issues no device call, so a lock held stays held; varjo_Unlock(ChromaKey)
\* is issued by unlockConfig called with the shadow lock flag true and by
\* nothing else.
C28_NoUnlockOnDestroy ==
    [][/\ op'.name = "~ChromaKeyManager" =>
              /\ calls' = <<>>
              /\ chromaKeyLocked' = chromaKeyLocked
       /\ (\E i \in DOMAIN calls' : calls'[i].call = "Unlock") =>
              /\ op'.name = "unlockConfig"
              /\ m_configLocked]_vars

\* C28 witness: a store destroyed while locked; the session still holds the
\* lock.
C28_Witness ==
    /\ op.name = "~ChromaKeyManager"
    /\ m_configLocked
    /\ chromaKeyLocked
    /\ lockTrail = "Lock"

\* Every world advance(t) can end in from the current state when the device
\* answers the lock and the set calls as o says.
AdvanceResults(t, o) ==
    UNION {applyNextModeOrValue(World, t, o.granted, o.fail[1], o.fail[2], ub, ubMode) :
               ub \in UBValues(t), ubMode \in UBModes(t)}

\* C29: advance is deterministic: from one device state (current mode and
\* value, supported modes and values, config type) and with the same lock
\* and error outcomes, advance(t) issues one sequence of device calls and
\* ends in one device state.
C29_AdvanceDeterministic ==
    ~crashed =>
        \A t \in PropertyTypes : \A o \in LockOutcomes(2) :
            Cardinality(AdvanceResults(t, o)) = 1

\* toggleChromaKeying(enabled) on the current state with the shadow lock flag
\* set to locked, the flag then taken out of the result.
ToggleWithFlag(locked, enabled, fail) ==
    [toggleChromaKeying([ChromaWorld EXCEPT !.m_configLocked = locked], enabled, fail)
         EXCEPT !.m_configLocked = FALSE]

\* C30 (checked under SpecChroma): the two shadow flags are independent:
\* lockConfig and unlockConfig never change the shadow enabled flag and never
\* issue the enable call; toggleChromaKeying never changes the shadow lock
\* flag, never issues lock or unlock and does the same with the flag true as
\* with it false; setConfig and getConfig change neither flag.
C30_ShadowFlagsIndependent ==
    [][/\ op'.name \in {"lockConfig", "unlockConfig"} =>
              /\ m_chromaKeyEnabled' = m_chromaKeyEnabled
              /\ \A i \in DOMAIN calls' : calls'[i].call # "SetChromaKey"
       /\ op'.name = "toggleChromaKeying" =>
              /\ m_configLocked' = m_configLocked
              /\ \A i \in DOMAIN calls' : calls'[i].call \notin {"Lock", "Unlock"}
              /\ \A fail \in BOOLEAN :
                     ToggleWithFlag(TRUE, request'.enabled, fail)
                         = ToggleWithFlag(FALSE, request'.enabled, fail)
       /\ op'.name \in {"setConfig", "getConfig"} =>
              /\ m_configLocked' = m_configLocked
              /\ m_chromaKeyEnabled' = m_chromaKeyEnabled]_vars

\* C30 witness: chroma keying switched on by a store that does not hold the
\* lock.
C30_Witness ==
    /\ op.name = "toggleChromaKeying"
    /\ result = <<TRUE>>
    /\ m_chromaKeyEnabled
    /\ chromaKey
    /\ ~m_configLocked
    /\ ~chromaKeyLocked

\* ... and the lock released by a store whose chroma keying is on.
C30_WitnessUnlock ==
    /\ op.name = "unlockConfig"
    /\ Unlocks # {}
    /\ m_chromaKeyEnabled
    /\ ~m_configLocked

\* C31: advance(t) with the lock granted that takes the mode branch (the
\* current mode is not Manual, or it is Manual with the last value) while the
\* current mode is not in the supported-mode list (an empty list included)
\* issues no set-mode and no set-value call, releases the lock once, and
\* leaves the device state as it was.
C31_ModeNotFoundChangesNothing ==
    [][\A t \in PropertyTypes :
           (/\ op' = [name |-> "advance", type |-> t]
            /\ \E i \in DOMAIN calls' : calls'[i].call = "Lock" /\ calls'[i].ret
            /\ mode[t] # "Manual" \/ FoundLast(t, value[t])
            /\ mode[t] \notin Elems(modeList[t])) =>
               /\ \A i \in DOMAIN calls' : calls'[i].call \notin MutatingCalls
               /\ Cardinality({i \in DOMAIN calls' : calls'[i].call = "Unlock"}) = 1
               /\ ~cameraLocked'
               /\ ~crashed'
               /\ mode' = mode
               /\ value' = value]_vars

\* C31 witness: an advance that read a mode its non-empty mode list does not
\* hold; the lock granted and released, nothing set.
C31_Witness ==
    \E t \in PropertyTypes :
        /\ op = [name |-> "advance", type |-> t]
        /\ GrantedLocks # {}
        /\ Len(modeList[t]) >= 1
        /\ FirstRet("GetMode") \notin Elems(modeList[t])
        /\ FirstRet("GetMode") = mode[t]
        /\ Mutations = {}
        /\ Cardinality(Unlocks) = 1

\* ... and one from Manual with the last value, Manual not supported.
C31_WitnessManual ==
    \E t \in PropertyTypes :
        /\ AdvancedFromManual(t, value[t])
        /\ FoundLast(t, value[t])
        /\ "Manual" \notin Elems(modeList[t])
        /\ Mutations = {}
        /\ Cardinality(Unlocks) = 1

\* C32: in every call of setPropertyValueToModuloIndex and
\* setPropertyModeToModuloIndex the list just fetched is not empty, so
\* index mod size never has size 0 and the element read is in bounds; advance
\* never picks Manual as the next mode of a property whose value list is
\* empty.
C32_ModuloIndexInBounds ==
    /\ ~crashed
    /\ \A t \in PropertyTypes :
           op = [name |-> "advance", type |-> t] =>
               /\ Positions("SetValue") # {} => Len(SeenValues(t)) >= 1
               /\ Positions("SetMode") # {} => Len(modeList[t]) >= 1
               /\ (\E i \in Positions("SetMode") : calls[i].arg = "Manual")
                      => Len(SeenValues(t)) >= 1

\* C33 (checked under SpecChroma): the shadow enabled flag follows the
\* device's enabled state: a toggleChromaKeying whose varjo_MRSetChromaKey
\* call the device applied returns true and leaves the shadow flag equal to
\* the device's state, also when an earlier call (the count query of the
\* constructor) left an error unread.
C33_AppliedToggleReturnsTrue ==
    (/\ op.name = "toggleChromaKeying"
     /\ Positions("SetChromaKey") # {}
     /\ FirstRet("SetChromaKey")) =>
        /\ result = <<TRUE>>
        /\ m_chromaKeyEnabled = chromaKey

\* --------------------------------------------------------- the repeat run
\* The caller keeps calling applyNextModeOrValue on one property for ever:
\* the lock is granted every time, no device call fails and nothing else
\* touches the device.  steps is the parity of the number of calls made.
RepeatAdvance ==
    /\ ~crashed
    /\ \E ub \in UBValues(origin.type), ubMode \in UBModes(origin.type) :
       \E w \in applyNextModeOrValue(World, origin.type, TRUE, FALSE, FALSE, ub, ubMode) :
           Finish(w, "advance", origin.type)
    /\ steps' = (steps + 1) % 2
    /\ UNCHANGED <<origin, probe, chromaVars, clientVars>>

NextRepeat == RepeatAdvance

\* As long as the process lives the caller makes another call.
CallAgain == ~crashed /\ steps' = (steps + 1) % 2

\* The caller never stops calling.  Every step that counts a call is a
\* RepeatAdvance step, and RepeatAdvance is enabled exactly when CallAgain
\* is, so this is weak fairness of RepeatAdvance.
SpecRepeat == InitCycle /\ [][NextRepeat]_vars /\ WF_steps(CallAgain)

\* C34 as stated (checked under SpecRepeat): with the lock always granted,
\* no device error and no other change of the device, from any start mode of
\* the supported-mode list repeated advance calls select every supported mode
\* again and again (no state is reached from which advance stops changing
\* the device).  Stated for the devices whose value list is not empty when
\* Manual is supported, where no element access is undefined.
C34_EveryModeSelectedFromAnyValue ==
    \A m \in Modes :
        []<>((/\ origin.mode \in Elems(modeList[origin.type])
              /\ "Manual" \in Elems(modeList[origin.type])
                     => Len(SeenValues(origin.type)) >= 1
              /\ m \in Elems(modeList[origin.type]))
                 => mode[origin.type] = m)

\* C34 amended (checked under SpecRepeat): from a start mode of the
\* supported-mode list, with a start value of the value list if that mode is
\* Manual and a non-empty value list if Manual is supported (lists without
\* repeated entries), repeated advance calls select every supported mode
\* again and again and, when Manual is supported, every value of the value
\* list in Manual mode.
C34_EveryModeAndValueSelected ==
    /\ \A m \in Modes :
           []<>((OnCycle /\ m \in Elems(modeList[origin.type]))
                    => mode[origin.type] = m)
    /\ \A v \in IntValues :
           []<>((/\ OnCycle
                 /\ "Manual" \in Elems(modeList[origin.type])
                 /\ v \in Elems(SeenValues(origin.type)))
                    => (mode[origin.type] = "Manual" /\ value[origin.type] = v))

\* C34 witness: three modes and two values, started in Off with the second
\* value; the walk has reached Manual with the first value.
C34_Witness ==
    /\ OnCycle
    /\ Len(modeList[origin.type]) = 3
    /\ Len(SeenValues(origin.type)) = 2
    /\ origin.mode = "Off"
    /\ origin.value = SeenValues(origin.type)[2]
    /\ op.name = "advance"
    /\ mode[origin.type] = "Manual"
    /\ value[origin.type] = SeenValues(origin.type)[1]

\* C35 (checked under Spec): applyNextModeOrValue(t) and setAutoMode(t) read
\* and change only property t: the mode and value of every other property
\* are what they were before the call, and every device call of the
\* invocation carries t (the lock calls carry the Camera lock type, the
\* error queries no type).
C35_OnlyNamedProperty ==
    [][\A t \in PropertyTypes :
           (op'.name \in {"advance", "setAutoMode"} /\ op'.type = t) =>
               /\ \A u \in PropertyTypes \ {t} :
                      mode'[u] = mode[u] /\ value'[u] = value[u]
               /\ \A i \in DOMAIN calls' :
                      calls'[i].type \in {t, "Camera", "-"}]_vars

\* C35 witness: an advance that set a value and left the property in a mode
\* and with a value that the other properties do not have.
C35_Witness ==
    \E t \in PropertyTypes :
        /\ op = [name |-> "advance", type |-> t]
        /\ \E i \in Positions("SetValue") : calls[i].ret /\ calls[i].type = t
        /\ \A u \in PropertyTypes \ {t} : mode[u] # mode[t] /\ value[u] # value[t]

\* C35 witness: setAutoMode moved one property to Auto and no other.
C35_WitnessAuto ==
    \E t \in PropertyTypes :
        /\ op = [name |-> "setAutoMode", type |-> t]
        /\ \E i \in Positions("SetMode") : calls[i].ret /\ calls[i].type = t
        /\ mode[t] = "Auto"
        /\ \A u \in PropertyTypes \ {t} : mode[u] # "Auto"

\* Client c makes the device call its position names.
Acts(c) == client'[c] # client[c]

\* C36 (checked under SpecTwo): with two clients interleaving, every device
\* read of advance that decides the mutation (current mode, current value
\* with the supported values, supported modes) is made while the client
\* holds the lock, and while it holds the lock nobody else changes the
\* device; so what a successful advance writes is the successor of what the
\* device holds: the value after the current one in Manual, the first value
\* before Manual is entered, the mode after the current one otherwise.  Only
\* setAutoMode reads (the supported modes) before it asks for the lock.
C36_ReadsUnderLockNoLostUpdate ==
    [][\A c \in Clients :
           LET me == client[c]
               t == me.type
               supportedModes == modeList[t]
               supportedValues == SeenValues(t)
               currentModeIndex == findPropertyModeIndex(mode[t], supportedModes)
           IN  /\ (me.pc \in {"GetMode", "GetValue", "NextMode"} /\ Acts(c)) =>
                      /\ me.name = "advance"
                      /\ owner = c
               /\ (owner = c /\ (mode' # mode \/ value' # value)) => Acts(c)
               /\ (me.pc = "idle" /\ Acts(c) /\ client'[c].name = "advance") =>
                      client'[c].pc = "Lock"
               /\ (me.name = "advance" /\ me.pc = "SetValue" /\ me.nextMode = "-"
                       /\ Acts(c)) =>
                      /\ owner = c
                      /\ mode[t] = "Manual"
                      /\ me.index - 1 \in findPropertyValueIndex(value[t], supportedValues)
                      /\ me.index < Len(supportedValues)
                      /\ value'[t] = supportedValues[me.index + 1]
               /\ (me.name = "advance" /\ me.pc = "SetValue" /\ me.nextMode # "-"
                       /\ Acts(c) /\ Len(supportedValues) >= 1) =>
                      /\ owner = c
                      /\ client'[c].pc = "SetMode"
                      /\ value'[t] = supportedValues[1]
               /\ (me.name = "advance" /\ me.pc = "SetMode" /\ Acts(c)) =>
                      /\ owner = c
                      /\ me.currentMode = mode[t]
                      /\ currentModeIndex # -1
                      /\ mode'[t] = supportedModes[
                             ((currentModeIndex + 1) % Len(supportedModes)) + 1]]_vars

\* C36 witness: one client's advance has written the next value under the
\* lock while the other client's call was turned away.
C36_Witness ==
    \E c, d \in Clients :
        /\ c # d
        /\ owner = c
        /\ client[c].name = "advance"
        /\ client[c].pc = "Unlock"
        /\ client[c].mutated
        /\ client[c].index = 1
        /\ client[d].pc = "idle"
        /\ client[d].denied

\* C36 witness: a setAutoMode call has read the supported modes and is about
\* to ask for the lock that the other client's advance holds.
C36_WitnessAutoMode ==
    \E c, d \in Clients :
        /\ c # d
        /\ owner = c
        /\ client[c].name = "advance"
        /\ client[c].pc = "SetMode"
        /\ client[d].name = "setAutoMode"
        /\ client[d].pc = "Lock"


====
